---- MODULE Spec2Model ----
(***************************************************************************)
(* A model of search_engine.py: a latent-semantic-indexing search engine.  *)
(*                                                                         *)
(* Document-ids (urls) and terms (tags) are strings in the program; here   *)
(* they are integers whose order stands for the strings' lexicographic     *)
(* order.  Real numbers are kept exact: a normalised matrix entry is a     *)
(* pair <<count, squared norm>>, a latent vector is an integer vector      *)
(* known up to a positive scale, and a cosine is a signed squared fraction *)
(* <<num, den>>.  A value whose denominator is 0 is numpy's nan (0/0).     *)
(* numpy.linalg.svd is not computed: its factors are drawn from small      *)
(* integer matrices, and Vt follows from U, S and A (Vt = S^-1 U^T A).     *)
(***************************************************************************)
EXTENDS Integers, Sequences, FiniteSets, TLC

VARIABLES data, args, pc, err, A, An, self, self0, call

vars == <<data, args, pc, err, A, An, self, self0, call>>

---------------------------------------------------------------------------
(* Inputs of the model and their bounds *)

\* Document-ids are 1..MaxDocs, in the order of the strings they stand for.
MaxDocs == 3
\* A document's term list has at most MaxPairs pairs (build specification).
MaxPairs == 2
\* A query has at most MaxKeys key words.
MaxKeys == 2
\* The rank argument no_svd_components is drawn from -1..MaxRank.
MaxRank == 3
\* Singular values are drawn from 0..MaxSing.
MaxSing == 1
\* A default result count smaller than the largest corpus.
SmallDefault == 2
\* NUM_RESULTS, the program's default result count.
NUM_RESULTS == 5

DocIds == 1..MaxDocs
\* The documents of the corpora of the build specification.
BuildDocIds == {1, 2}
\* The terms a corpus may contain, in the order of the strings they stand for.
Terms == {1, 2}
\* The key words of a query: the terms, and one word no corpus contains.
KeyWords == {1, 2, 3}
\* The counts of the corpora of the build specification.
Counts == {1, 2}

None == "None"
NoCall == [op |-> "none"]

Ranks == (-1)..MaxRank
DefaultCounts == {SmallDefault, NUM_RESULTS}
\* The optional per-call result count: << >> is None (no override), <<n>> is
\* the count n, from 0 to one more than any corpus holds.
NoCount == << >>
OverrideCounts == {NoCount} \cup {<<n>> : n \in 0..(MaxDocs + 1)}

Range(s) == {s[i] : i \in DOMAIN s}

\* Every order in which a dict or a set may hand out its elements.
Orders(S) == {s \in [1..Cardinality(S) -> S] : Range(s) = S}

\* The term lists of the build specification: any pairs, a term may repeat.
TermLists == UNION {[1..n -> Terms \X Counts] : n \in 0..MaxPairs}

\* The term lists of the query specification: every term at most once, with
\* count 1, in ascending order.
QueryTermLists ==
  {[i \in DOMAIN l |-> <<l[i], 1>>] :
     l \in {l \in UNION {[1..n -> Terms] : n \in 0..Cardinality(Terms)} :
             \A i \in 1..(Len(l) - 1) : l[i] < l[i + 1]}}

\* A corpus: a mapping from document-id to a list of (term, count) pairs.
Corpora(ids, lists) == UNION {[S -> lists] : S \in SUBSET ids}

KeyWordLists == UNION {[1..n -> KeyWords] : n \in 0..MaxKeys}

---------------------------------------------------------------------------
(* Sequences and Python lists *)

RECURSIVE SumSeq(_)
SumSeq(s) == IF s = << >> THEN 0 ELSE Head(s) + SumSeq(Tail(s))

RECURSIVE ProdSeq(_)
ProdSeq(s) == IF s = << >> THEN 1 ELSE Head(s) * ProdSeq(Tail(s))

Min(a, b) == IF a <= b THEN a ELSE b
Max(a, b) == IF a >= b THEN a ELSE b

\* len(seq[:k]): a slice stop beyond the end is clamped, a negative one
\* counts from the end.
SliceLen(n, k) == IF k >= 0 THEN Min(k, n) ELSE Max(n + k, 0)

\* seq[:k]
PySlice(seq, k) == SubSeq(seq, 1, SliceLen(Len(seq), k))

\* list.index(x): the first position of x (1-based here); 0 stands for the
\* ValueError of a missing x.
Index(seq, x) ==
  IF x \in Range(seq)
  THEN CHOOSE i \in DOMAIN seq : seq[i] = x /\ \A j \in 1..(i - 1) : seq[j] # x
  ELSE 0

\* Insert x at position p (1-based) of seq.
InsertAt(seq, p, x) == SubSeq(seq, 1, p - 1) \o <<x>> \o SubSeq(seq, p, Len(seq))

RECURSIVE Reverse(_)
Reverse(s) == IF s = << >> THEN << >> ELSE Reverse(Tail(s)) \o <<Head(s)>>

---------------------------------------------------------------------------
(* list.sort() and sorted() on strings (a total order) *)

\* The list left as it is: the sort forgotten.
ListSortForgotten(seq) == seq

RECURSIVE ListSort(_)
ListSort(seq) ==
  IF seq = << >> THEN << >>
  ELSE LET rest == ListSort(Tail(seq))
           x    == Head(seq)
           p    == Cardinality({i \in DOMAIN rest : rest[i] <= x}) + 1
       IN InsertAt(rest, p, x)

---------------------------------------------------------------------------
(* extractData *)

\* urls = data.keys(); urls.sort()   (keyOrder: the order keys() returns)
ExtractUrls(keyOrder) == ListSort(keyOrder)

\* tags = set(); tags.update(t for t, _ in tagfreq) for every document
TagSet(d) == UNION {{d[u][i][1] : i \in DOMAIN d[u]} : u \in DOMAIN d}

\* tags = sorted(list(tags))   (tagOrder: the order the set is listed in)
ExtractTags(tagOrder) == ListSort(tagOrder)

---------------------------------------------------------------------------
(* generateCounts *)

\* A[row, column] += count: the counts of a repeated term added up.
RECURSIVE FillColumnAdding(_, _, _)
FillColumnAdding(col, pairs, tags) ==
  IF pairs = << >> THEN col
  ELSE FillColumnAdding([col EXCEPT ![Index(tags, pairs[1][1])] = @ + pairs[1][2]],
                        Tail(pairs), tags)

\* for tag, count in data[url]: A[tags.index(tag), column] = count
RECURSIVE FillColumn(_, _, _)
FillColumn(col, pairs, tags) ==
  IF pairs = << >> THEN col
  ELSE FillColumn([col EXCEPT ![Index(tags, pairs[1][1])] = pairs[1][2]],
                  Tail(pairs), tags)

\* A matrix is [rows, cols, v] with v[r][c] its entries.
GenerateCounts(d, urls, tags) ==
  LET filled == [c \in 1..Len(urls) |->
                   FillColumn([r \in 1..Len(tags) |-> 0], d[urls[c]], tags)]
  IN [rows |-> Len(tags), cols |-> Len(urls),
      v |-> [r \in 1..Len(tags) |-> [c \in 1..Len(urls) |-> filled[c][r]]]]

---------------------------------------------------------------------------
(* normalize_columns *)

\* norm(arr[:,col]) squared
NormSq(m, c) == SumSeq([r \in 1..m.rows |-> m.v[r][c] * m.v[r][c]])

\* arr[:,col] /= norm(arr[:,col]): entry x becomes x / sqrt(NormSq), kept as
\* <<x, NormSq>>; with NormSq = 0 the division is 0/0, numpy's nan.
NormalizeColumns(m) ==
  [rows |-> m.rows, cols |-> m.cols,
   v |-> [r \in 1..m.rows |-> [c \in 1..m.cols |-> <<m.v[r][c], NormSq(m, c)>>]]]

\* The columns normalize_columns divided by a zero norm.
ZeroDivided(n) == {c \in 1..n.cols : \E r \in 1..n.rows : n.v[r][c][2] = 0}

---------------------------------------------------------------------------
(* truncatedSVD and inv *)

\* numpy.linalg.svd raises LinAlgError for an empty matrix and for one that
\* holds nan (the decomposition does not converge).
SvdRaises(n) == n.rows = 0 \/ n.cols = 0 \/ ZeroDivided(n) # {}

Dot(x, y) == SumSeq([i \in DOMAIN x |-> x[i] * y[i]])

\* The term-space bases svd may return, cut to U[:, :k]: columns non-zero and
\* pairwise orthogonal, each known up to a positive scale.  svd fixes a
\* column of U and the matching row of Vt up to a common sign, on which no
\* distance depends: one sign is listed (first non-zero entry positive).
UChoices(rows, cols) ==
  {u \in [1..rows -> [1..cols -> (-1)..1]] :
     LET column(j) == [r \in 1..rows |-> u[r][j]]
     IN \A i, j \in 1..cols :
          IF i = j
          THEN \E r \in 1..rows :
                 u[r][i] = 1 /\ \A r2 \in 1..(r - 1) : u[r2][i] = 0
          ELSE Dot(column(i), column(j)) = 0}

\* The singular values svd may return: non-negative, in descending order.
SChoices(n) ==
  {s \in [1..n -> 0..MaxSing] : \A i \in 1..(n - 1) : s[i] >= s[i + 1]}

\* Shapes of U[:, :k], S[:k, :k], Vt[:k, :] for an m x n matrix: svd returns
\* U m x m and Vt n x n, and S is resized to m x n.
TruncatedShapes(m, n, k) ==
  [ucols |-> SliceLen(m, k), srows |-> SliceLen(m, k),
   scols |-> SliceLen(n, k), vrows |-> SliceLen(n, k)]

\* inv(S) raises LinAlgError for a matrix that is not square or is singular;
\* emptyOk: whether this numpy build inverts a 0 x 0 matrix.
InvRaises(S, emptyOk) ==
  \/ S.rows # S.cols
  \/ \E i \in DOMAIN S.diag : S.diag[i] = 0
  \/ S.rows = 0 /\ ~emptyOk

\* inv(S) of a diagonal matrix: the reciprocals <<1, s>>.
Inv(S) == [rows |-> S.rows, cols |-> S.cols,
           diag |-> [i \in DOMAIN S.diag |-> <<1, S.diag[i]>>]]

\* U.T
Transpose(m) == [rows |-> m.cols, cols |-> m.rows,
                 v |-> [j \in 1..m.cols |-> [r \in 1..m.rows |-> m.v[r][j]]]]

\* dot(Si, dot(Ut, x)) up to the positive factor s_1 * ... * s_k: entry j is
\* (Ut[j] . x) / s_j.
SiUt(Si, Ut, x) ==
  LET y == [j \in 1..Ut.rows |-> Dot(Ut.v[j], x)]
      others(j) == [l \in 1..Si.rows |-> IF l = j THEN 1 ELSE Si.diag[l][2]]
  IN [j \in 1..Ut.rows |-> Si.diag[j][1] * y[j] * ProdSeq(others(j))]

\* truncatedSVD(A, k) with the factors U, S drawn; Vt = S^-1 U^T A fixes the
\* reduced document coordinates (each column up to its positive scale).
TruncatedSVD(n, k, u, s) ==
  LET sh == TruncatedShapes(n.rows, n.cols, k)
      U  == [rows |-> n.rows, cols |-> sh.ucols, v |-> u]
      S  == [rows |-> sh.srows, cols |-> sh.scols, diag |-> s]
      docs == IF sh.srows = sh.scols /\ \A i \in DOMAIN s : s[i] # 0
              THEN [c \in 1..n.cols |->
                      SiUt(Inv(S), Transpose(U), [r \in 1..n.rows |-> n.v[r][c][1]])]
              ELSE [c \in 1..n.cols |-> [j \in 1..sh.vrows |-> 0]]
  IN [U |-> U, S |-> S,
      Vt |-> [rows |-> sh.vrows, cols |-> n.cols,
              v |-> [j \in 1..sh.vrows |-> [c \in 1..n.cols |-> docs[c][j]]]]]

---------------------------------------------------------------------------
(* SearchEngine.__init__ *)

NoEngine == [built |-> FALSE]

Engine(urls, tags, svd, k, n) ==
  [built |-> TRUE, urls |-> urls, tags |-> tags, no_tags |-> Len(tags),
   U |-> svd.U, S |-> svd.S, Vt |-> svd.Vt,
   Ut |-> Transpose(svd.U), Si |-> Inv(svd.S),
   no_svd_components |-> k, no_results |-> n]

Raise(e) ==
  /\ pc' = "failed" /\ err' = e
  /\ self' = NoEngine /\ self0' = NoEngine

\* __init__, first part: data = loadData(data_file);
\* self.urls, self.tags = extractData(data); self.no_tags = len(self.tags).
\* keyOrder and tagOrder are the orders in which the dict hands out its keys
\* and the set its elements.
InitExtract ==
  /\ pc = "new"
  /\ \E keyOrder \in Orders(DOMAIN data), tagOrder \in Orders(TagSet(data)) :
       LET urls == ExtractUrls(keyOrder)
           tags == ExtractTags(tagOrder)
       IN self' = [built |-> FALSE, urls |-> urls, tags |-> tags,
                   no_tags |-> Len(tags)]
  /\ pc' = "extracted"
  /\ UNCHANGED <<data, args, err, A, An, self0, call>>

\* __init__, second part: A = generateCounts(...); normalize_columns(A);
\* truncatedSVD; inv; the remaining fields.  An exception leaves no engine.
InitDecompose ==
  /\ pc = "extracted"
  /\ LET cnt == GenerateCounts(data, self.urls, self.tags)
         nrm == NormalizeColumns(cnt)
         sh  == TruncatedShapes(nrm.rows, nrm.cols, args.k)
     IN /\ A' = cnt
        /\ An' = nrm
        /\ IF SvdRaises(nrm) THEN Raise("LinAlgError")
           ELSE \E u \in UChoices(nrm.rows, sh.ucols),
                   s \in SChoices(Min(sh.srows, sh.scols)),
                   emptyOk \in (IF sh.srows = 0 THEN BOOLEAN ELSE {TRUE}) :
                  LET svd == TruncatedSVD(nrm, args.k, u, s)
                  IN IF InvRaises(svd.S, emptyOk) THEN Raise("LinAlgError")
                     ELSE /\ pc' = "built" /\ err' = None
                          /\ self' = Engine(self.urls, self.tags, svd,
                                            args.k, args.n)
                          /\ self0' = self'
  /\ UNCHANGED <<data, args, call>>

NoMatrix == [rows |-> 0, cols |-> 0, v |-> << >>]

InitWith(corpora, counts) ==
  /\ data \in corpora
  /\ args \in [k : Ranks, n : counts]
  /\ pc = "new" /\ err = None
  /\ A = NoMatrix /\ An = NoMatrix
  /\ self = NoEngine /\ self0 = NoEngine
  /\ call = NoCall

---------------------------------------------------------------------------
(* build_query_vector *)

\* q = zeros(no_tags); for key in key_words: try: q[tags.index(key)] = 1
\* except: pass
RECURSIVE SetKeys(_, _, _)
SetKeys(q, key_words, tags) ==
  IF key_words = << >> THEN q
  ELSE LET i == Index(tags, Head(key_words))
       IN SetKeys(IF i = 0 THEN q ELSE [q EXCEPT ![i] = 1], Tail(key_words), tags)

\* A lookup that answers -1 for a missing key word (as str.find does): q[-1]
\* is the last entry.
RECURSIVE SetKeysFound(_, _, _)
SetKeysFound(q, key_words, tags) ==
  IF key_words = << >> THEN q
  ELSE LET i == Index(tags, Head(key_words))
           at == IF i = 0 THEN Len(q) ELSE i
       IN SetKeysFound(IF at = 0 THEN q ELSE [q EXCEPT ![at] = 1],
                       Tail(key_words), tags)

BuildQueryVectorByFind(s, key_words) ==
  SetKeysFound([i \in 1..s.no_tags |-> 0], key_words, s.tags)

BuildQueryVector(s, key_words) ==
  SetKeys([i \in 1..s.no_tags |-> 0], key_words, s.tags)

---------------------------------------------------------------------------
(* project *)

\* qhat = dot(Si, dot(Ut, q)); qhat /= norm(qhat).  The vector is kept up to
\* its positive scale; a zero norm makes every entry 0/0 = nan.
Project(s, q) ==
  LET raw == SiUt(s.Si, s.Ut, q)
  IN [nan |-> Len(raw) > 0 /\ Dot(raw, raw) = 0, v |-> raw]

---------------------------------------------------------------------------
(* cosDist *)

NaN == <<0, 0>>
IsNaN(x) == x[2] = 0
Sgn(x) == IF x > 0 THEN 1 ELSE IF x < 0 THEN -1 ELSE 0

\* arccos(dot(q, p) / (norm(q) * norm(p))), kept as the cosine's signed
\* square <<sgn(d) * d^2, |q|^2 * |p|^2>>; a zero norm gives 0/0 = nan.
CosDist(p, qhat) ==
  LET d   == Dot(qhat.v, p)
      den == Dot(qhat.v, qhat.v) * Dot(p, p)
  IN IF qhat.nan \/ den = 0 THEN NaN ELSE <<Sgn(d) * d * d, den>>

\* x < y on two distances: arccos is decreasing, and every comparison with
\* nan is false.
DistLt(x, y) == ~IsNaN(x) /\ ~IsNaN(y) /\ x[1] * y[2] > y[1] * x[2]

---------------------------------------------------------------------------
(* cos_distances.sort(key=lambda x: x[1]): CPython's list.sort on a short list
   (one run found by count_run, the rest inserted by binarysort) *)

KeyLt(a, b) == DistLt(a[2], b[2])

RECURSIVE AscendingRun(_, _)
AscendingRun(l, i) ==
  IF i > Len(l) THEN Len(l)
  ELSE IF KeyLt(l[i], l[i - 1]) THEN i - 1 ELSE AscendingRun(l, i + 1)

RECURSIVE DescendingRun(_, _)
DescendingRun(l, i) ==
  IF i > Len(l) THEN Len(l)
  ELSE IF ~KeyLt(l[i], l[i - 1]) THEN i - 1 ELSE DescendingRun(l, i + 1)

CountRun(l) ==
  IF Len(l) <= 1 THEN [n |-> Len(l), descending |-> FALSE]
  ELSE IF KeyLt(l[2], l[1]) THEN [n |-> DescendingRun(l, 3), descending |-> TRUE]
  ELSE [n |-> AscendingRun(l, 3), descending |-> FALSE]

\* binarysort's search: the place of pivot among l[lo..hi-1].
RECURSIVE BinaryPlace(_, _, _, _)
BinaryPlace(l, pivot, lo, hi) ==
  IF lo >= hi THEN lo
  ELSE LET p == lo + ((hi - lo) \div 2)
       IN IF KeyLt(pivot, l[p]) THEN BinaryPlace(l, pivot, lo, p)
          ELSE BinaryPlace(l, pivot, p + 1, hi)

RECURSIVE BinarySort(_, _)
BinarySort(l, start) ==
  IF start > Len(l) THEN l
  ELSE LET pivot == l[start]
           p == BinaryPlace(l, pivot, 1, start)
       IN BinarySort(InsertAt(SubSeq(l, 1, start - 1), p, pivot)
                       \o SubSeq(l, start + 1, Len(l)),
                     start + 1)

PySort(l) ==
  LET run == CountRun(l)
      l1  == IF run.descending
             THEN Reverse(SubSeq(l, 1, run.n)) \o SubSeq(l, run.n + 1, Len(l))
             ELSE l
  IN BinarySort(l1, run.n + 1)

---------------------------------------------------------------------------
(* nearest_urls *)

\* if not no_results: no_results = self.no_results
EffectiveCount(s, no_results) ==
  IF no_results = NoCount \/ no_results[1] = 0 THEN s.no_results
  ELSE no_results[1]

\* for i in xrange(len(self.urls)): append (i, cosDist(Vt[:,i], qhat)); sort
RECURSIVE CosDistances(_, _, _, _)
CosDistances(s, qhat, i, acc) ==
  IF i > Len(s.urls) THEN acc
  ELSE LET p == [j \in 1..s.Vt.rows |-> s.Vt.v[j][i]]
       IN CosDistances(s, qhat, i + 1, PySort(Append(acc, <<i, CosDist(p, qhat)>>)))

\* The first n entries taken by position modulo the length: n entries even
\* when the list is shorter.
TopUrlsCyclic(s, cos_distances, n) ==
  IF cos_distances = << >> \/ n < 0 THEN << >>
  ELSE [j \in 1..n |->
          s.urls[cos_distances[((j - 1) % Len(cos_distances)) + 1][1]]]

\* return [self.urls[pair[0]] for pair in cos_distances[:no_results]]
TopUrls(s, cos_distances, n) ==
  LET top == PySlice(cos_distances, n)
  IN [j \in 1..Len(top) |-> s.urls[top[j][1]]]

NearestUrls(s, qhat, no_results) ==
  TopUrls(s, CosDistances(s, qhat, 1, << >>), EffectiveCount(s, no_results))

\* self.no_results = no_results: the count of the call kept in the engine.
AfterQueryKeepingCount(s, no_results) ==
  [s EXCEPT !.no_results = EffectiveCount(s, no_results)]

\* The engine after a call: no_results of nearest_urls is a local name, and
\* build_query_vector, project, nearest_urls and search assign to no field.
AfterQuery(s, no_results) == s

---------------------------------------------------------------------------
(* The calls on a constructed engine *)

\* engine.search(key_words)
Search ==
  /\ pc = "built" /\ call = NoCall
  /\ \E key_words \in KeyWordLists :
       LET q    == BuildQueryVector(self, key_words)
           qhat == Project(self, q)
       IN /\ call' = [op |-> "search", key_words |-> key_words, q |-> q,
                      qhat |-> qhat, no_results |-> NoCount,
                      cos_distances |-> CosDistances(self, qhat, 1, << >>),
                      result |-> NearestUrls(self, qhat, NoCount),
                      outcome |-> "returned"]
          /\ self' = AfterQuery(self, NoCount)
  /\ UNCHANGED <<data, args, pc, err, A, An, self0>>

\* The projected queries: what project returns for a query vector.
ProjectedQueries(s) ==
  {Project(s, BuildQueryVector(s, key_words)) : key_words \in KeyWordLists}

\* engine.nearest_urls(qhat, no_results) for a projected query qhat
NearestUrlsCall ==
  /\ pc = "built" /\ call = NoCall
  /\ \E qhat \in ProjectedQueries(self), no_results \in OverrideCounts :
          /\ call' = [op |-> "nearest_urls", qhat |-> qhat, no_results |-> no_results,
                      cos_distances |-> CosDistances(self, qhat, 1, << >>),
                      result |-> NearestUrls(self, qhat, no_results),
                      outcome |-> "returned"]
          /\ self' = AfterQuery(self, no_results)
  /\ UNCHANGED <<data, args, pc, err, A, An, self0>>

\* The caller takes the returned list; the engine is ready for the next call.
Return ==
  /\ call # NoCall
  /\ call' = NoCall
  /\ UNCHANGED <<data, args, pc, err, A, An, self, self0>>

---------------------------------------------------------------------------
(* Specifications *)

QueryCorpora == Corpora(DocIds, QueryTermLists)

Init == InitWith(QueryCorpora, DefaultCounts)

Next == InitExtract \/ InitDecompose \/ Search \/ NearestUrlsCall \/ Return

Spec == Init /\ [][Next]_vars

InitBuild == InitWith(Corpora(BuildDocIds, TermLists), {NUM_RESULTS})

NextBuild == InitExtract \/ InitDecompose

SpecBuild == InitBuild /\ [][NextBuild]_vars

---------------------------------------------------------------------------
(* Notions the properties are stated in *)

Built == pc = "built"
Constructed == pc \in {"built", "failed"}
Called == call # NoCall

StrictlyAscending(seq) == \A i \in 1..(Len(seq) - 1) : seq[i] < seq[i + 1]

\* The position of x in the ascending listing of the set S.
PlaceIn(S, x) == Cardinality({y \in S : y <= x})

\* The count the result count asked of a call: the override when one is
\* given, the engine's default otherwise.
Requested == IF call.no_results = NoCount THEN self.no_results
             ELSE call.no_results[1]

\* The cosine distance of document u to the call's projected query.
DistanceOf(u) ==
  LET c == PlaceIn(Range(self.urls), u)
  IN CosDist([j \in 1..self.Vt.rows |-> self.Vt.v[j][c]], call.qhat)

\* Two distances are equal: the same number, or both undefined.
DistEq(x, y) ==
  \/ IsNaN(x) /\ IsNaN(y)
  \/ ~IsNaN(x) /\ ~IsNaN(y) /\ x[1] * y[2] = y[1] * x[2]

\* Document a ranks no later than document b by the key (distance, id).
RanksBefore(a, b) ==
  \/ DistLt(DistanceOf(a), DistanceOf(b))
  \/ DistEq(DistanceOf(a), DistanceOf(b)) /\ a <= b

\* Every document, in the order the call ranked them.
FullRanking == [j \in 1..Len(call.cos_distances) |-> self.urls[call.cos_distances[j][1]]]

\* The last count listed for term t in a term list, 0 when t is not listed.
LastCount(pairs, t) ==
  LET at == {i \in DOMAIN pairs : pairs[i][1] = t}
  IN IF at = {} THEN 0
     ELSE pairs[CHOOSE i \in at : \A j \in at : j <= i][2]

\* Entry of the count matrix for term t and document d.
CountAt(t, d) == A.v[PlaceIn(TagSet(data), t)][PlaceIn(DOMAIN data, d)]

---------------------------------------------------------------------------
(* Properties *)

\* C1: the list nearest_urls returns is ordered by ascending cosine distance
\* to the projected query, documents of equal distance in ascending
\* document-id order: it is a prefix of the documents sorted by the key
\* (distance, document-id).
C1_RankedByDistanceThenId ==
  (Built /\ Called) =>
    /\ \A j \in 1..(Len(call.result) - 1) :
         RanksBefore(call.result[j], call.result[j + 1])
    /\ \A a \in Range(call.result), b \in Range(self.urls) \ Range(call.result) :
         RanksBefore(a, b)

\* C2: a call that asks for more results than the corpus has documents
\* returns every document-id of the Document Index exactly once, and raises
\* no error.
C2_AllDocumentsWhenCountExceeds ==
  (Built /\ Called /\ Requested > Cardinality(DOMAIN data)) =>
    /\ call.outcome = "returned"
    /\ Len(call.result) = Cardinality(DOMAIN data)
    /\ \A u \in DOMAIN data :
         Cardinality({j \in DOMAIN call.result : call.result[j] = u}) = 1

C2_Witness ==
  /\ Built /\ Called /\ call.op = "nearest_urls"
  /\ call.no_results # NoCount
  /\ Cardinality(DOMAIN data) = 3
  /\ call.no_results[1] > 3
  /\ Len(call.result) = 3

\* C3: nearest_urls with the override N >= 0 returns exactly the first
\* min(N, D) entries of the full ranking, whatever the default count is.
C3_OverrideCountHonoured ==
  (Built /\ Called /\ call.op = "nearest_urls" /\ call.no_results # NoCount) =>
    LET n == Min(call.no_results[1], Len(self.urls))
    IN /\ Len(call.result) = n
       /\ call.result = SubSeq(FullRanking, 1, n)

\* C4: a search none of whose key words is in the Vocabulary (its query
\* vector is all zeros) ends in EmptyQueryError and returns no ranking.
C4_EmptyQueryRaises ==
  (Built /\ Called /\ call.op = "search" /\ \A i \in DOMAIN call.q : call.q[i] = 0) =>
    /\ call.outcome = "EmptyQueryError"
    /\ call.result = << >>

\* C5: the query vector has one entry per Vocabulary term, 1 exactly where
\* the term occurs among the key words and 0 elsewhere; key words outside the
\* Vocabulary raise no error and change nothing.
C5_QueryVectorMarksKnownKeyWords ==
  (Built /\ Called /\ call.op = "search") =>
    /\ call.outcome = "returned"
    /\ Len(call.q) = Len(self.tags)
    /\ \A i \in DOMAIN call.q :
         call.q[i] = IF self.tags[i] \in Range(call.key_words) THEN 1 ELSE 0

C5_Witness ==
  /\ Built /\ Called /\ call.op = "search"
  /\ Len(self.tags) = 2
  /\ call.key_words = <<3, 2>>
  /\ call.q = <<0, 1>>

\* C6 as stated: for every (term, count) pair of every document, the count
\* matrix holds that count at (term, document), and 0 for a term the
\* document does not list.
C6_EveryListedCount ==
  Constructed =>
    \A d \in DOMAIN data :
      /\ \A i \in DOMAIN data[d] : CountAt(data[d][i][1], d) = data[d][i][2]
      /\ \A t \in TagSet(data) :
           (\A i \in DOMAIN data[d] : data[d][i][1] # t) => CountAt(t, d) = 0

\* C6, amended: the count matrix has one row per Vocabulary term and one
\* column per document, and holds at (term, document) the count of the last
\* pair the document lists for the term, 0 where the document lists none.
C6_LastListedCount ==
  Constructed =>
    /\ A.rows = Cardinality(TagSet(data))
    /\ A.cols = Cardinality(DOMAIN data)
    /\ \A d \in DOMAIN data, t \in TagSet(data) :
         CountAt(t, d) = LastCount(data[d], t)

C6_Witness ==
  /\ Constructed
  /\ \E d \in DOMAIN data :
       /\ Len(data[d]) = 2
       /\ data[d][1][1] = data[d][2][1]
       /\ data[d][1][2] # data[d][2][2]
       /\ CountAt(data[d][1][1], d) = data[d][2][2]

\* C7: the Document Index is the strictly ascending list of exactly the
\* corpus's document-ids and the Vocabulary the strictly ascending list of
\* exactly the terms of the corpus, from construction on and through every
\* call.
C7_IndexAndVocabularySorted ==
  Built =>
    /\ StrictlyAscending(self.urls)
    /\ Range(self.urls) = DOMAIN data
    /\ StrictlyAscending(self.tags)
    /\ Range(self.tags) = TagSet(data)
    /\ self.no_tags = Len(self.tags)

C7_Witness ==
  /\ Built /\ Called
  /\ self.urls = <<1, 2, 3>>
  /\ self.tags = <<1, 2>>

\* C8: after any calls every field of the engine has the value it had right
\* after construction, and a search returns what the engine as constructed
\* returns for its key words.
C8_QueriesLeaveEngineUnchanged ==
  Built =>
    /\ self = self0
    /\ (Called /\ call.op = "search") =>
         call.result =
           NearestUrls(self0,
                       Project(self0, BuildQueryVector(self0, call.key_words)),
                       NoCount)

C8_Witness ==
  /\ Built /\ Called /\ call.op = "nearest_urls"
  /\ call.no_results # NoCount
  /\ call.no_results[1] = 1
  /\ self.no_results = NUM_RESULTS
  /\ Len(call.result) = 1

\* C9: a corpus with terms one of whose documents has an all-zero column of
\* the term-document matrix is rejected with EmptyDocumentError, no
\* zero-norm column is divided, and no engine is built.
C9_EmptyDocumentRejected ==
  (Constructed /\ A.rows > 0
     /\ \E c \in 1..A.cols : \A r \in 1..A.rows : A.v[r][c] = 0) =>
    /\ pc = "failed"
    /\ err = "EmptyDocumentError"
    /\ ZeroDivided(An) = {}

\* C10: for a matrix svd decomposes (not empty, no zero-norm column), a
\* rank outside 1..min(terms, documents) is rejected with
\* InvalidRankError and builds nothing; a rank inside gives U of terms x k,
\* S of k x k and Vt of k x documents.
C10_RankInRange ==
  (Constructed /\ ~SvdRaises(An)) =>
    LET k == args.k
    IN IF 1 <= k /\ k <= Min(A.rows, A.cols)
       THEN Built =>
              /\ self.U.rows = A.rows /\ self.U.cols = k
              /\ self.S.rows = k /\ self.S.cols = k
              /\ self.Vt.rows = k /\ self.Vt.cols = A.cols
       ELSE pc = "failed" /\ err = "InvalidRankError"

====
